---------------------------- MODULE Spec2Model ----------------------------
(***************************************************************************)
(* Model of the financial-data loader Projects/Predict_hpi/predict/data.py *)
(* (with its key registry data_keys.py, and the copy of the resampler in   *)
(* Projects/Predict_hpi/datas.py).                                         *)
(*                                                                         *)
(* A caller runs one public function at a time.  The file system, the      *)
(* flags and the tickers are the caller's inputs.  Dates are day numbers,  *)
(* values are exact rationals extended with NaN and the two infinities     *)
(* (float rounding is not modelled).                                       *)
(***************************************************************************)
EXTENDS Integers, Sequences, FiniteSets, TLC

VARIABLES
    globals,    \* names bound in data.py's module namespace by its imports
    _api_key_av, \* the module global holding the Alpha Vantage API key
    call,       \* the public function the caller is running
    args,       \* its arguments
    pc,         \* position inside the call
    fs,         \* the files the call has opened so far: name -> file
    df,         \* the table under construction, and finally the result
    err,        \* the exception that ended the call, "None" otherwise
    trace       \* the helper functions invoked by the call, in order

vars == <<globals, _api_key_av, call, args, pc, fs, df, err, trace>>

---------------------------------------------------------------------------
(* Bounds of the model. *)

\* Dates are the days 0..MaxDay.
MaxDay == 3
\* File values are NaN or an integer in 0..MaxVal.
MaxVal == 2
\* The longest list of tables or tickers a caller passes.
MaxLen == 2

Days == 0 .. MaxDay

---------------------------------------------------------------------------
(* Values: <<n, d>> is n/d in lowest terms with d > 0; <<0, 0>> is NaN,    *)
(* <<1, 0>> is +inf and <<-1, 0>> is -inf, as float64 division yields.     *)

NaN == <<0, 0>>

Abs(n) == IF n < 0 THEN -n ELSE n
Sgn(n) == IF n < 0 THEN -1 ELSE IF n = 0 THEN 0 ELSE 1

RECURSIVE GCD(_, _)
GCD(a, b) == IF b = 0 THEN a ELSE GCD(b, a % b)

\* n/d for d # 0, in lowest terms.
Rat(n, d) ==
    LET g == GCD(Abs(n), Abs(d))
        s == Sgn(d)
    IN  <<(s * n) \div g, (s * d) \div g>>

Num(v) == <<v, 1>>

IsNaN(x) == x = NaN
IsInf(x) == x[2] = 0 /\ x[1] # 0
IsFinite(x) == x[2] # 0

\* float64 addition.
Add(x, y) ==
    IF IsNaN(x) \/ IsNaN(y) THEN NaN
    ELSE IF IsInf(x) /\ IsInf(y) THEN (IF x = y THEN x ELSE NaN)
    ELSE IF IsInf(x) THEN x
    ELSE IF IsInf(y) THEN y
    ELSE Rat(x[1] * y[2] + y[1] * x[2], x[2] * y[2])

Neg(x) == <<-x[1], x[2]>>

Sub(x, y) == Add(x, Neg(y))

\* float64 multiplication.
Mul(x, y) ==
    IF IsNaN(x) \/ IsNaN(y) THEN NaN
    ELSE IF IsInf(x) \/ IsInf(y)
         THEN (IF x[1] = 0 \/ y[1] = 0 THEN NaN ELSE <<Sgn(x[1]) * Sgn(y[1]), 0>>)
    ELSE Rat(x[1] * y[1], x[2] * y[2])

\* float64 division: x/0 is an infinity, 0/0 and inf/inf are NaN.
Div(x, y) ==
    IF IsNaN(x) \/ IsNaN(y) THEN NaN
    ELSE IF IsInf(x)
         THEN (IF IsInf(y) THEN NaN
               ELSE <<x[1] * (IF y[1] < 0 THEN -1 ELSE 1), 0>>)
    ELSE IF IsInf(y) THEN Num(0)
    ELSE IF y[1] = 0
         THEN (IF x[1] = 0 THEN NaN ELSE <<Sgn(x[1]), 0>>)
    ELSE Rat(x[1] * y[2], x[2] * y[1])

---------------------------------------------------------------------------
(* Series: a function from a set of days (the index) to values.            *)

SetMin(S) == CHOOSE x \in S : \A y \in S : x <= y
SetMax(S) == CHOOSE x \in S : \A y \in S : y <= x

\* The interpolation with the last valid value carried forward instead.
interpolate_pad(a) ==
    LET valid == {d \in DOMAIN a : ~IsNaN(a[d])}
    IN  [d \in DOMAIN a |->
            IF d \in valid \/ {v \in valid : v < d} = {} THEN a[d]
            ELSE a[SetMax({v \in valid : v < d})]]

\* Series.interpolate(method='linear') on a series with a contiguous daily
\* index: a missing value between two valid ones is interpolated, missing
\* values before the first valid one stay missing, missing values after
\* the last valid one take the last valid value.
interpolate(a) ==
    LET valid == {d \in DOMAIN a : ~IsNaN(a[d])}
    IN  IF valid = {} THEN a
        ELSE [d \in DOMAIN a |->
                IF d \in valid THEN a[d]
                ELSE IF d < SetMin(valid) THEN NaN
                ELSE IF d > SetMax(valid) THEN a[SetMax(valid)]
                ELSE LET l == SetMax({v \in valid : v < d})
                         r == SetMin({v \in valid : v > d})
                         slope == Div(Sub(a[r], a[l]), Num(r - l))
                     IN  Add(Mul(slope, Num(d - l)), a[l])]

\* The daily calendar without its last day.
resample_D_open(data) ==
    IF DOMAIN data = {} THEN data
    ELSE [d \in SetMin(DOMAIN data) .. SetMax(DOMAIN data) - 1 |->
            IF d \in DOMAIN data THEN data[d] ELSE NaN]

\* data.resample('D'): one row per calendar day from the first to the last
\* date of the index, holding the source value where there is a source row.
resample_D(data) ==
    IF DOMAIN data = {} THEN data
    ELSE [d \in SetMin(DOMAIN data) .. SetMax(DOMAIN data) |->
            IF d \in DOMAIN data THEN data[d] ELSE NaN]

_resample_daily(data) == interpolate(resample_D(data))

\* The copy of the resampler in datas.py.
datas_resample_daily(data) == interpolate(resample_D(data))

---------------------------------------------------------------------------
(* Inputs. *)

FileValues == {NaN} \cup {Num(v) : v \in 0 .. MaxVal}

\* Every series a delimited file can hold: at least one row, dates
\* strictly increasing, each value a number or missing.
SourceSeries ==
    UNION {[rows -> FileValues] : rows \in (SUBSET Days) \ {{}}}

\* No arguments, no table, no file opened.
NoArgs == <<>>
NoTable == <<>>
NoFiles == <<>>

\* A delimited file that is not on disk.
NoFile == [exists |-> FALSE]

\* A tab-separated file with the date in the first column and one value
\* column (the per-share fundamentals and the bond yields).
TsvFile(data) == [exists |-> TRUE, data |-> data]

---------------------------------------------------------------------------
(* The module namespace of data.py. *)

\* Lines 24-28: the modules data.py imports by name.
Imports == {"pd", "np", "time", "os", "requests"}

\* The names data_keys.py binds, which `from data_keys import *` copies.
data_keys ==
    {"DATE", "DATE_TIME", "HP", "RATIO_EXACT", "HPI", "HPI_REAL",
     "EARNINGS", "EARNINGS_REAL", "EARNINGS_GROWTH", "EARNINGS_GROWTH_REAL",
     "RATIO", "RATIO_MF", "ANN_RETURN", "ANN_RETURN_REAL", "MORTGAGE_RATE",
     "MORTGAGE_FACTOR", "MEAN_ANN_RETURN", "STD_ANN_RETURN", "BOND_YIELD",
     "CPI"}

\* The column keys data.py refers to by name.
ReferencedKeys ==
    {"TOTAL_RETURN", "SHARE_PRICE", "EARNINGS_PER_SHARE", "PE",
     "PROFIT_MARGIN", "SALES_PER_SHARE", "PSALES", "SALES_GROWTH",
     "BOOK_VALUE_PER_SHARE", "PBOOK", "DIVIDEND_TTM", "PDIVIDEND",
     "DIVIDEND_YIELD", "CPI", "DATE_TIME", "OPEN", "CLOSE", "HIGH", "LOW",
     "VOLUME"}

\* `from data_keys import *` binds what the data_keys module found on the
\* import path defines: this repository's predict/data_keys.py, or the
\* registry of FinanceOps (the project data.py is a file of, lines 14-16),
\* which defines every key data.py refers to.
Namespaces ==
    {Imports \cup data_keys, Imports \cup data_keys \cup ReferencedKeys}

\* Evaluating a global name raises NameError unless the name is bound.
Bound(names) == names \subseteq globals

---------------------------------------------------------------------------
(* common_period *)

\* The tables a caller compares: daily tables as the loaders return them,
\* among them the table without rows (a > b).
Tables == {[d \in a .. b |-> Num(0)] : a \in Days, b \in Days}

RECURSIVE SeqsUpTo(_, _)
SeqsUpTo(S, n) ==
    IF n = 0 THEN {<<>>}
    ELSE LET shorter == SeqsUpTo(S, n - 1)
         IN  shorter \cup {Append(q, x) : q \in {t \in shorter : Len(t) = n - 1}, x \in S}

\* df.index[0] and df.index[-1] of a table sorted by date.
IndexFirst(t) == SetMin(DOMAIN t)
IndexLast(t) == SetMax(DOMAIN t)

\* common_period taking the earliest start date.
common_period_min_start(dfs) ==
    IF \E i \in 1 .. Len(dfs) : DOMAIN dfs[i] = {}
    THEN [err |-> "IndexError", ret |-> <<>>, dfs |-> dfs]
    ELSE IF Len(dfs) = 0
    THEN [err |-> "ValueError", ret |-> <<>>, dfs |-> dfs]
    ELSE [err |-> "None",
          ret |-> <<SetMin({IndexFirst(dfs[i]) : i \in 1 .. Len(dfs)}),
                    SetMin({IndexLast(dfs[i]) : i \in 1 .. Len(dfs)})>>,
          dfs |-> dfs]

\* The outcome of common_period(dfs): the exception or the returned pair,
\* and the tables as the call leaves them.
common_period(dfs) ==
    IF \E i \in 1 .. Len(dfs) : DOMAIN dfs[i] = {}
    THEN [err |-> "IndexError", ret |-> <<>>, dfs |-> dfs]
    ELSE IF Len(dfs) = 0
    THEN [err |-> "ValueError", ret |-> <<>>, dfs |-> dfs]
    ELSE LET start_dates == {IndexFirst(dfs[i]) : i \in 1 .. Len(dfs)}
             end_dates == {IndexLast(dfs[i]) : i \in 1 .. Len(dfs)}
         IN  [err |-> "None",
              ret |-> <<SetMax(start_dates), SetMin(end_dates)>>,
              dfs |-> dfs]

---------------------------------------------------------------------------
(* load_usa_gov_bond_1year *)

\* No row removed.
dropna_none(data) == data

\* DataFrame.dropna(): the rows without a missing value.
dropna(data) ==
    [d \in {r \in DOMAIN data : ~IsNaN(data[r])} |-> data[d]]

\* Line 274: the file the bond loader reads.
BondFileName == "USA Gov Bond Yield 1-Year.txt"

\* bond_yields /= 100
ScalePercent(data) == [d \in DOMAIN data |-> Div(data[d], Num(100))]

load_usa_gov_bond_1year(file) ==
    IF ~file.exists
    THEN [err |-> "FileNotFoundError", ret |-> <<>>]
    ELSE [err |-> "None",
          ret |-> _resample_daily(ScalePercent(dropna(file.data)))]

---------------------------------------------------------------------------
(* Tables (DataFrames): an index and, per column key, a series over it.    *)
(* A column is keyed by the name of its registry key.                      *)

Columns(d) == DOMAIN d.cols

\* df[key] = series: the series aligned to the index of df, missing where
\* it has no row; an existing column of that key is replaced.
SetColumn(d, key, series) ==
    [index |-> d.index,
     cols |-> [c \in Columns(d) \cup {key} |->
                 IF c = key
                 THEN [r \in d.index |->
                         IF r \in DOMAIN series THEN series[r] ELSE NaN]
                 ELSE d.cols[c]]]

\* Elementwise a / b of two columns of one table.
ColumnDiv(a, b) == [r \in DOMAIN a |-> Div(a[r], b[r])]

\* df.dropna(subset=[key]): the rows where the column holds a value.
dropna_subset(d, key) ==
    LET keep == {r \in d.index : ~IsNaN(d.cols[key][r])}
    IN  [index |-> keep,
         cols |-> [c \in Columns(d) |-> [r \in keep |-> d.cols[c][r]]]]

\* Line 179: the lag of the sales growth, in rows.
PctChangePeriods == 365

\* Series.pct_change(periods): the change against the row `periods` rows
\* earlier, missing for the first `periods` rows.
pct_change(col, periods) ==
    LET pos(r) == Cardinality({e \in DOMAIN col : e < r})
    IN  [r \in DOMAIN col |->
            IF pos(r) < periods THEN NaN
            ELSE LET prev == CHOOSE e \in DOMAIN col : pos(e) = pos(r) - periods
                 IN  Sub(Div(col[r], col[prev]), Num(1))]

---------------------------------------------------------------------------
(* Files of a ticker. *)

PriceFileName == " Share-Price (Yahoo).csv"
EarningsFileName == " Earnings Per Share.txt"
SalesFileName == " Sales Per Share.txt"
BookValueFileName == " Book-Value Per Share.txt"
DividendTTMFileName == " Dividend Per Share TTM.txt"
DividendFileName == " Dividend Per Share.txt"

\* Headers of a Yahoo price file.
YahooHeaders == {"Close", "Adj Close", "Volume"}

\* A Yahoo CSV-file: its header row and, per header, the column.
CsvFile(headers, close) ==
    [exists |-> TRUE,
     data |-> [h \in headers |->
                 [r \in DOMAIN close |->
                     IF h = "Close" THEN close[r]
                     ELSE IF h = "Adj Close" THEN Add(close[r], Num(1))
                     ELSE Num(0)]]]

\* The price files on disk: none, or prices on the first and the last day
\* (missing, 1 or MaxVal), with all headers or with one of them absent.
PriceFiles ==
    {NoFile} \cup
    {CsvFile(h, c) :
        h \in {YahooHeaders, YahooHeaders \ {"Close"},
               YahooHeaders \ {"Adj Close"}, YahooHeaders \ {"Volume"}},
        c \in [{0, MaxDay} -> {NaN, Num(1), Num(MaxVal)}]}

\* The fundamentals files on disk: none, one row on day 0, or rows on day 1
\* and on the last day with the values 0 or MaxVal.
MetricFiles ==
    {NoFile} \cup {TsvFile(0 :> Num(1))} \cup
    {TsvFile(s) : s \in [{1, MaxDay} -> {Num(0), Num(MaxVal)}]}

---------------------------------------------------------------------------
(* Private helper-functions.  Each yields the exception it raises ("None"  *)
(* when it returns) and the table as it leaves it.                         *)

Raise(e, d) == [err |-> e, df |-> d]
Return(d) == [err |-> "None", df |-> d]

_load_price_yahoo(file) ==
    IF ~file.exists THEN Raise("FileNotFoundError", NoTable)
    ELSE IF ~Bound({"TOTAL_RETURN", "SHARE_PRICE"}) THEN Raise("NameError", NoTable)
    ELSE IF ~({"Adj Close", "Close"} \subseteq DOMAIN file.data)
         THEN Raise("KeyError", NoTable)
    ELSE LET total_return == _resample_daily(file.data["Adj Close"])
             share_price == _resample_daily(file.data["Close"])
         IN  Return([index |-> DOMAIN share_price,
                     cols |-> ("TOTAL_RETURN" :> total_return) @@
                              ("SHARE_PRICE" :> share_price)])

\* The earnings enricher with the profit margin as sales over earnings.
load_earnings_per_share_inverted(file, d, profit_margin) ==
    IF ~file.exists THEN Raise("FileNotFoundError", d)
    ELSE LET d1 == SetColumn(d, "EARNINGS_PER_SHARE", _resample_daily(file.data))
             d2 == SetColumn(d1, "PE",
                       ColumnDiv(d1.cols["SHARE_PRICE"], d1.cols["EARNINGS_PER_SHARE"]))
         IN  IF ~profit_margin THEN Return(d2)
             ELSE IF "SALES_PER_SHARE" \notin Columns(d2) THEN Raise("KeyError", d2)
             ELSE Return(SetColumn(d2, "PROFIT_MARGIN",
                       ColumnDiv(d2.cols["SALES_PER_SHARE"], d2.cols["EARNINGS_PER_SHARE"])))

_load_earnings_per_share(file, d, profit_margin) ==
    IF ~file.exists THEN Raise("FileNotFoundError", d)
    ELSE IF ~Bound({"EARNINGS_PER_SHARE"}) THEN Raise("NameError", d)
    ELSE LET d1 == SetColumn(d, "EARNINGS_PER_SHARE", _resample_daily(file.data))
         IN  IF ~Bound({"PE", "SHARE_PRICE"}) THEN Raise("NameError", d1)
             ELSE LET d2 == SetColumn(d1, "PE",
                               ColumnDiv(d1.cols["SHARE_PRICE"],
                                         d1.cols["EARNINGS_PER_SHARE"]))
                  IN  IF ~profit_margin THEN Return(d2)
                      ELSE IF ~Bound({"PROFIT_MARGIN", "SALES_PER_SHARE"})
                           THEN Raise("NameError", d2)
                      ELSE IF "SALES_PER_SHARE" \notin Columns(d2)
                           THEN Raise("KeyError", d2)
                      ELSE Return(SetColumn(d2, "PROFIT_MARGIN",
                               ColumnDiv(d2.cols["EARNINGS_PER_SHARE"],
                                         d2.cols["SALES_PER_SHARE"])))

_load_sales_per_share(file, d) ==
    IF ~file.exists THEN Raise("FileNotFoundError", d)
    ELSE IF ~Bound({"SALES_PER_SHARE"}) THEN Raise("NameError", d)
    ELSE LET d1 == SetColumn(d, "SALES_PER_SHARE", _resample_daily(file.data))
         IN  IF ~Bound({"PSALES", "SHARE_PRICE"}) THEN Raise("NameError", d1)
             ELSE LET d2 == SetColumn(d1, "PSALES",
                               ColumnDiv(d1.cols["SHARE_PRICE"],
                                         d1.cols["SALES_PER_SHARE"]))
                  IN  IF ~Bound({"SALES_GROWTH"}) THEN Raise("NameError", d2)
                      ELSE Return(SetColumn(d2, "SALES_GROWTH",
                               pct_change(d2.cols["SALES_PER_SHARE"], PctChangePeriods)))

\* The book-value enricher putting an empty column in place of a missing
\* file.
load_book_value_per_share_default(file, d) ==
    IF ~file.exists
    THEN Return(SetColumn(d, "BOOK_VALUE_PER_SHARE", NoTable))
    ELSE LET d1 == SetColumn(d, "BOOK_VALUE_PER_SHARE", _resample_daily(file.data))
         IN  Return(SetColumn(d1, "PBOOK",
                 ColumnDiv(d1.cols["SHARE_PRICE"], d1.cols["BOOK_VALUE_PER_SHARE"])))

_load_book_value_per_share(file, d) ==
    IF ~file.exists THEN Raise("FileNotFoundError", d)
    ELSE IF ~Bound({"BOOK_VALUE_PER_SHARE"}) THEN Raise("NameError", d)
    ELSE LET d1 == SetColumn(d, "BOOK_VALUE_PER_SHARE", _resample_daily(file.data))
         IN  IF ~Bound({"PBOOK", "SHARE_PRICE"}) THEN Raise("NameError", d1)
             ELSE Return(SetColumn(d1, "PBOOK",
                      ColumnDiv(d1.cols["SHARE_PRICE"],
                                d1.cols["BOOK_VALUE_PER_SHARE"])))

\* The dividend enricher keeping only the rows that have a dividend.
load_dividend_TTM_dropna(file, d) ==
    IF ~file.exists THEN Raise("FileNotFoundError", d)
    ELSE LET d1 == SetColumn(d, "DIVIDEND_TTM", _resample_daily(file.data))
             d2 == SetColumn(d1, "PDIVIDEND",
                       ColumnDiv(d1.cols["SHARE_PRICE"], d1.cols["DIVIDEND_TTM"]))
             d3 == SetColumn(d2, "DIVIDEND_YIELD",
                       ColumnDiv(d2.cols["DIVIDEND_TTM"], d2.cols["SHARE_PRICE"]))
         IN  Return(dropna_subset(d3, "DIVIDEND_TTM"))

_load_dividend_TTM(file, d) ==
    IF ~file.exists THEN Raise("FileNotFoundError", d)
    ELSE IF ~Bound({"DIVIDEND_TTM"}) THEN Raise("NameError", d)
    ELSE LET d1 == SetColumn(d, "DIVIDEND_TTM", _resample_daily(file.data))
         IN  IF ~Bound({"PDIVIDEND", "SHARE_PRICE"}) THEN Raise("NameError", d1)
             ELSE LET d2 == SetColumn(d1, "PDIVIDEND",
                               ColumnDiv(d1.cols["SHARE_PRICE"],
                                         d1.cols["DIVIDEND_TTM"]))
                  IN  IF ~Bound({"DIVIDEND_YIELD"}) THEN Raise("NameError", d2)
                      ELSE Return(SetColumn(d2, "DIVIDEND_YIELD",
                               ColumnDiv(d2.cols["DIVIDEND_TTM"],
                                         d2.cols["SHARE_PRICE"])))

---------------------------------------------------------------------------
(* The assemblers load_stock_data and load_index_data. *)

\* The enrichers each assembler invokes, in the order of its statements,
\* and the flag that enables each.
Enrichers(c) ==
    IF c = "load_stock_data"
    THEN <<"_load_sales_per_share", "_load_earnings_per_share",
           "_load_book_value_per_share", "_load_dividend_TTM">>
    ELSE <<"_load_sales_per_share", "_load_book_value_per_share",
           "_load_dividend_TTM">>

Flag(step) ==
    CASE step = "_load_sales_per_share" -> "sales"
      [] step = "_load_earnings_per_share" -> "earnings"
      [] step = "_load_book_value_per_share" -> "book_value"
      [] step = "_load_dividend_TTM" -> "dividend_TTM"

\* The statement the assembler runs after statement number i of its
\* enrichers: the next enricher whose flag is set, or the return.
NextStep(c, flags, i) ==
    LET later == {j \in i + 1 .. Len(Enrichers(c)) : flags[Flag(Enrichers(c)[j])]}
    IN  IF later = {} THEN "returned" ELSE Enrichers(c)[SetMin(later)]

StepIndex(c, step) == CHOOSE j \in 1 .. Len(Enrichers(c)) : Enrichers(c)[j] = step

StockFlags == [{"earnings", "sales", "book_value", "dividend_TTM"} -> BOOLEAN]
IndexFlags == [{"sales", "book_value", "dividend_TTM"} -> BOOLEAN]

\* Lines 333-346 of load_index_data: the dividends are merged with the
\* daily prices, the rows without a price are dropped, and the Total
\* Return is asked of `returns`: a name that no import of data.py and no
\* data_keys module binds, so the statement raises NameError.
load_index_data_total_return(file, price_daily) ==
    IF ~file.exists THEN Raise("FileNotFoundError", price_daily)
    ELSE LET index == price_daily.index \cup DOMAIN file.data
             merged ==
                 [index |-> index,
                  cols |-> [c \in Columns(price_daily) \cup {"Dividend Per Share"} |->
                              [r \in index |->
                                  IF c = "Dividend Per Share"
                                  THEN (IF r \in DOMAIN file.data
                                        THEN file.data[r] ELSE NaN)
                                  ELSE (IF r \in price_daily.index
                                        THEN price_daily.cols[c][r] ELSE NaN)]]]
         IN  IF ~Bound({"SHARE_PRICE"}) THEN Raise("NameError", merged)
             ELSE Raise("NameError", dropna_subset(merged, "SHARE_PRICE"))

---------------------------------------------------------------------------
(* load_shareprices_intraday *)

Tickers == {"AAA", "BBB"}

\* What the intraday directory holds for a ticker: no file, a file
\* read_csv cannot load with its 'timestamp' index, or a loadable file.
IntradayFiles == {"missing", "malformed", "ok"}

\* The body of the try-block for one ticker runs to its end.
IntradayLoads(disk, ticker) ==
    /\ disk[ticker] = "ok"
    /\ Bound({"DATE_TIME"})
    /\ Bound({"OPEN", "CLOSE", "HIGH", "LOW", "VOLUME"})

\* The loop over the tickers: the keys of df_dict, in insertion order.  An
\* exception in the try-block is swallowed and the ticker left out.
RECURSIVE IntradayDict(_, _, _)
IntradayDict(disk, tickers, keys) ==
    IF tickers = <<>> THEN keys
    ELSE LET t == Head(tickers)
             present == \E i \in 1 .. Len(keys) : keys[i] = t
         IN  IntradayDict(disk, Tail(tickers),
                 IF IntradayLoads(disk, t) /\ ~present
                 THEN Append(keys, t) ELSE keys)

\* The outcome of load_shareprices_intraday: the tickers whose rows the
\* returned table holds, in the order of its outer index level; pd.concat
\* raises ValueError when df_dict is empty.
load_shareprices_intraday(disk, tickers) ==
    LET list == IF tickers.is_list THEN tickers.value ELSE <<tickers.value>>
        df_dict == IntradayDict(disk, list, <<>>)
    IN  IF df_dict = <<>> THEN [err |-> "ValueError", ret |-> <<>>]
        ELSE [err |-> "None", ret |-> df_dict]

\* The arguments a caller passes for `tickers`: a list or a single string.
TickerArgs ==
    {[is_list |-> TRUE, value |-> q] : q \in SeqsUpTo(Tickers, MaxLen)} \cup
    {[is_list |-> FALSE, value |-> t] : t \in Tickers}

---------------------------------------------------------------------------
(* download_shareprices_intraday *)

\* The longest list of tickers a caller downloads.
MaxRequests == 6
\* The longest time, in seconds, the web-server takes to answer.
MaxLatency == 1

\* Line 562: the seconds slept after a download.
SleepSeconds == 13

\* What requests.get(url) yields: a response with a status code, or an
\* exception of `requests` when no response arrives.
StatusCodes == {200, 404}
NoResponse == 0
Responses == StatusCodes \cup {NoResponse}

\* The list AAA, BBB, AAA, ... of n tickers.
TickerCycle(n) == [i \in 1 .. n |-> IF i % 2 = 1 THEN "AAA" ELSE "BBB"]

\* The arguments a caller passes for `tickers`: a list or a single string.
DownloadArgs ==
    TickerArgs \cup
    {[is_list |-> TRUE, value |-> TickerCycle(n)] : n \in 1 .. MaxRequests}

\* Lines 520-522: a single ticker is made a list.
TickerList(tickers) ==
    IF tickers.is_list THEN tickers.value ELSE <<tickers.value>>

\* The sleep of the loop without the test for the last ticker but one.
SleepAfter_from_second(i, num_tickers, sleep) ==
    IF sleep /\ i > 0 /\ i < num_tickers - 1 THEN SleepSeconds ELSE 0

\* Lines 561-562: the seconds slept after the download of ticker number i
\* (counted from 0).
SleepAfter(i, num_tickers, sleep) ==
    IF sleep /\ i < num_tickers - 1 THEN SleepSeconds ELSE 0

\* The loop body going on to the next ticker only after status 200.
DownloadOne_stop_on_error(loop, files, ticker, response, latency, num_tickers, sleep) ==
    LET request == [ticker |-> ticker, status |-> response, at |-> loop.clock,
                    printed |-> IF response = 200 THEN "Done!" ELSE "Error"]
    IN  [err |-> IF response = 200 THEN "None" ELSE "RequestException",
         files |-> IF response = 200 THEN files \cup {ticker} ELSE files,
         request |-> request,
         loop |-> [i |-> loop.i + 1,
                   clock |-> loop.clock + latency,
                   sleeps |-> loop.sleeps]]

\* Lines 532-562, one pass of the loop for ticker number loop.i: the
\* request, the file written on status 200 or the status printed, and the
\* sleep.  Yields the exception, the files written so far, the request as
\* issued and the loop's state after the pass.
DownloadOne(loop, files, ticker, response, latency, num_tickers, sleep) ==
    LET request == [ticker |-> ticker, status |-> response, at |-> loop.clock,
                    printed |-> IF response = NoResponse THEN "None"
                                ELSE IF response = 200 THEN "Done!"
                                ELSE "Error"]
        slept == SleepAfter(loop.i, num_tickers, sleep)
    IN  IF response = NoResponse
        THEN [err |-> "RequestException", files |-> files, request |-> request,
              loop |-> [i |-> loop.i, clock |-> loop.clock + latency,
                        sleeps |-> loop.sleeps]]
        ELSE [err |-> "None",
              files |-> IF response = 200 THEN files \cup {ticker} ELSE files,
              request |-> request,
              loop |-> [i |-> loop.i + 1,
                        clock |-> loop.clock + latency + slept,
                        sleeps |-> IF slept > 0 THEN loop.sleeps + 1
                                   ELSE loop.sleeps]]

Init ==
    /\ globals \in Namespaces
    /\ _api_key_av = "None"
    /\ call = "none"
    /\ args = NoArgs
    /\ pc = "idle"
    /\ fs = NoFiles
    /\ df = NoTable
    /\ err = "None"
    /\ trace = <<>>

\* The caller applies the Daily Resampler to a source series.
resample_daily_call ==
    /\ pc = "idle"
    /\ \E data \in SourceSeries :
        /\ call' = "_resample_daily"
        /\ args' = data
        /\ df' = _resample_daily(data)
        /\ pc' = "returned"
        /\ err' = "None"
        /\ fs' = NoFiles
        /\ trace' = <<"_resample_daily">>
        /\ UNCHANGED <<globals, _api_key_av>>

\* The caller applies the resampler of datas.py to a source series.
datas_resample_daily_call ==
    /\ pc = "idle"
    /\ \E data \in SourceSeries :
        /\ call' = "datas._resample_daily"
        /\ args' = data
        /\ df' = datas_resample_daily(data)
        /\ pc' = "returned"
        /\ err' = "None"
        /\ fs' = NoFiles
        /\ trace' = <<"_resample_daily">>
        /\ UNCHANGED <<globals, _api_key_av>>

\* The caller asks for the common period of a list of tables.
common_period_call ==
    /\ pc = "idle"
    /\ \E dfs \in SeqsUpTo(Tables, MaxLen) :
        LET out == common_period(dfs)
        IN  /\ call' = "common_period"
            /\ args' = dfs
            /\ df' = [ret |-> out.ret, dfs |-> out.dfs]
            /\ err' = out.err
            /\ pc' = IF out.err = "None" THEN "returned" ELSE "raised"
            /\ fs' = NoFiles
            /\ trace' = <<"common_period">>
            /\ UNCHANGED <<globals, _api_key_av>>

\* The caller loads the bond yields; the file is as the disk holds it.
load_usa_gov_bond_1year_call ==
    /\ pc = "idle"
    /\ \E file \in {NoFile} \cup {TsvFile(s) : s \in SourceSeries} :
        LET out == load_usa_gov_bond_1year(file)
        IN  /\ call' = "load_usa_gov_bond_1year"
            /\ args' = NoArgs
            /\ fs' = (BondFileName :> file)
            /\ df' = out.ret
            /\ err' = out.err
            /\ pc' = IF out.err = "None" THEN "returned" ELSE "raised"
            /\ trace' = <<"_load_data", "_resample_daily">>
            /\ UNCHANGED <<globals, _api_key_av>>

\* The caller asks for the data of a stock.
load_stock_data_call ==
    /\ pc = "idle"
    /\ \E flags \in StockFlags :
        /\ call' = "load_stock_data"
        /\ args' = flags
        /\ pc' = "_load_price_yahoo"
        /\ UNCHANGED <<globals, _api_key_av, fs, df, err, trace>>

\* The caller asks for the data of a stock-index.
load_index_data_call ==
    /\ pc = "idle"
    /\ \E flags \in IndexFlags :
        /\ call' = "load_index_data"
        /\ args' = flags
        /\ pc' = "_load_price_yahoo"
        /\ UNCHANGED <<globals, _api_key_av, fs, df, err, trace>>

\* The assembler loads the price.  load_stock_data then drops the rows
\* without a share-price and goes on to its enrichers (lines 394-400);
\* load_index_data goes on to the dividends (line 331).
load_price_yahoo_step ==
    /\ pc = "_load_price_yahoo"
    /\ \E file \in PriceFiles :
        LET out == _load_price_yahoo(file)
        IN  /\ fs' = (PriceFileName :> file)
            /\ trace' = Append(trace, "_load_price_yahoo")
            /\ err' = out.err
            /\ IF out.err # "None"
               THEN /\ pc' = "raised"
                    /\ df' = NoTable
               ELSE IF call = "load_stock_data"
               THEN /\ pc' = NextStep(call, args, 0)
                    /\ df' = dropna_subset(out.df, "SHARE_PRICE")
               ELSE /\ pc' = "total_return"
                    /\ df' = out.df
            /\ UNCHANGED <<globals, _api_key_av, call, args>>

\* load_index_data merges the dividends and computes the Total Return.
load_index_data_total_return_step ==
    /\ pc = "total_return"
    /\ \E file \in MetricFiles :
        LET out == load_index_data_total_return(file, df)
        IN  /\ fs' = fs @@ (DividendFileName :> file)
            /\ trace' = Append(trace, "_load_data")
            /\ err' = out.err
            /\ df' = out.df
            /\ pc' = IF out.err # "None" THEN "raised"
                     ELSE NextStep(call, args, 0)
            /\ UNCHANGED <<globals, _api_key_av, call, args>>

\* What an enricher leaves behind: the exception ends the assembler's
\* call, otherwise the assembler goes on to its next statement.
EnricherStep(step, name, file, out) ==
    /\ fs' = fs @@ (name :> file)
    /\ trace' = Append(trace, step)
    /\ err' = out.err
    /\ df' = out.df
    /\ pc' = IF out.err # "None" THEN "raised"
             ELSE NextStep(call, args, StepIndex(call, step))
    /\ UNCHANGED <<globals, _api_key_av, call, args>>

load_sales_per_share_step ==
    /\ pc = "_load_sales_per_share"
    /\ \E file \in MetricFiles :
        EnricherStep("_load_sales_per_share", SalesFileName, file,
                     _load_sales_per_share(file, df))

\* load_stock_data calls the earnings enricher with its default
\* profit_margin=True (line 409).
load_earnings_per_share_step ==
    /\ pc = "_load_earnings_per_share"
    /\ \E file \in MetricFiles :
        EnricherStep("_load_earnings_per_share", EarningsFileName, file,
                     _load_earnings_per_share(file, df, TRUE))

load_book_value_per_share_step ==
    /\ pc = "_load_book_value_per_share"
    /\ \E file \in MetricFiles :
        EnricherStep("_load_book_value_per_share", BookValueFileName, file,
                     _load_book_value_per_share(file, df))

load_dividend_TTM_step ==
    /\ pc = "_load_dividend_TTM"
    /\ \E file \in MetricFiles :
        EnricherStep("_load_dividend_TTM", DividendTTMFileName, file,
                     _load_dividend_TTM(file, df))

\* The caller loads the intraday share-prices of some tickers.
load_shareprices_intraday_call ==
    /\ pc = "idle"
    /\ \E tickers \in TickerArgs, disk \in [Tickers -> IntradayFiles] :
        LET out == load_shareprices_intraday(disk, tickers)
        IN  /\ call' = "load_shareprices_intraday"
            /\ args' = tickers
            /\ fs' = disk
            /\ df' = out.ret
            /\ err' = out.err
            /\ pc' = IF out.err = "None" THEN "returned" ELSE "raised"
            /\ trace' = <<"load_shareprices_intraday">>
            /\ UNCHANGED <<globals, _api_key_av>>

\* The caller sets the API key for Alpha Vantage.
set_api_key_av ==
    /\ pc = "idle"
    /\ _api_key_av' = "KEY"
    /\ UNCHANGED <<globals, call, args, pc, fs, df, err, trace>>

\* The caller downloads the intraday share-prices of some tickers: the
\* assertion on the API key, and the loop's state before its first pass.
\* Here fs is the set of tickers whose file the call has written, df the
\* loop's state and trace the requests issued.
download_shareprices_intraday_call ==
    /\ pc = "idle"
    /\ \E tickers \in DownloadArgs, sleep \in BOOLEAN :
        /\ call' = "download_shareprices_intraday"
        /\ args' = [tickers |-> tickers, sleep |-> sleep]
        /\ fs' = {}
        /\ trace' = <<>>
        /\ df' = [i |-> 0, clock |-> 0, sleeps |-> 0]
        /\ err' = IF _api_key_av = "None" THEN "AssertionError" ELSE "None"
        /\ pc' = IF _api_key_av = "None" THEN "raised"
                 ELSE IF TickerList(tickers) = <<>> THEN "returned"
                 ELSE "download"
        /\ UNCHANGED <<globals, _api_key_av>>

\* One pass of the loop over the tickers.
download_shareprices_intraday_step ==
    /\ pc = "download"
    /\ \E response \in Responses, latency \in 0 .. MaxLatency :
        LET list == TickerList(args.tickers)
            out == DownloadOne(df, fs, list[df.i + 1], response, latency,
                               Len(list), args.sleep)
        IN  /\ fs' = out.files
            /\ df' = out.loop
            /\ trace' = Append(trace, out.request)
            /\ err' = out.err
            /\ pc' = IF out.err # "None" THEN "raised"
                     ELSE IF out.loop.i = Len(list) THEN "returned"
                     ELSE "download"
            /\ UNCHANGED <<globals, _api_key_av, call, args>>

\* The call is over: the caller has its result or its exception.
caller_done ==
    /\ pc \in {"returned", "raised"}
    /\ call' = "none"
    /\ args' = NoArgs
    /\ pc' = "idle"
    /\ fs' = NoFiles
    /\ df' = NoTable
    /\ err' = "None"
    /\ trace' = <<>>
    /\ UNCHANGED <<globals, _api_key_av>>

Next ==
    \/ resample_daily_call
    \/ datas_resample_daily_call
    \/ common_period_call
    \/ load_usa_gov_bond_1year_call
    \/ load_stock_data_call
    \/ load_index_data_call
    \/ load_price_yahoo_step
    \/ load_index_data_total_return_step
    \/ load_sales_per_share_step
    \/ load_earnings_per_share_step
    \/ load_book_value_per_share_step
    \/ load_dividend_TTM_step
    \/ load_shareprices_intraday_call
    \/ set_api_key_av
    \/ download_shareprices_intraday_call
    \/ download_shareprices_intraday_step
    \/ caller_done

Spec == Init /\ [][Next]_vars


---------------------------------------------------------------------------
(* StorageCalc.py: calculate_storage. *)

\* The largest file size a caller asks about.
MaxFilesize == 8200

\* Line 5: the size of a block, in bytes.
block_size == 4096

\* The computation rounding an exact multiple up to the next block as well.
calculate_storage_always_up(filesize) ==
    block_size * ((filesize \div block_size) + 1)

\* Lines 4-11: the storage a file of the given size takes.
calculate_storage(filesize) ==
    LET full_blocks == filesize \div block_size
        partial_block_remainder == filesize % block_size
    IN  IF partial_block_remainder > 0
        THEN block_size * (full_blocks + 1)
        ELSE full_blocks * block_size

\* The state of StorageCalc.py as a module of its own: no call made yet.
InitStorage ==
    /\ globals = {}
    /\ _api_key_av = "None"
    /\ call = "none"
    /\ args = NoArgs
    /\ pc = "idle"
    /\ fs = NoFiles
    /\ df = NoTable
    /\ err = "None"
    /\ trace = <<>>

\* A caller asks for the storage of a file; line 13 does so for filesize 1.
\* The result is kept in df.
calculate_storage_call ==
    /\ pc = "idle"
    /\ \E filesize \in 0 .. MaxFilesize :
        /\ call' = "calculate_storage"
        /\ args' = filesize
        /\ df' = calculate_storage(filesize)
        /\ pc' = "returned"
        /\ trace' = <<"calculate_storage">>
        /\ UNCHANGED <<globals, _api_key_av, fs, err>>

NextStorage ==
    \/ calculate_storage_call
    \/ caller_done

SpecStorage == InitStorage /\ [][NextStorage]_vars

---------------------------------------------------------------------------
(* Claims. *)

\* The rows of a source series that hold a value (its source points).
Known(src) == {d \in DOMAIN src : ~IsNaN(src[d])}

\* out is the value v1 + (v2 - v1) * (d - d1) / (d2 - d1), for integers v1, v2.
IsLinear(out, d, d1, v1, d2, v2) ==
    /\ out[2] > 0
    /\ out[1] * (d2 - d1) = out[2] * (v1 * (d2 - d1) + (v2 - v1) * (d - d1))

Resampling == call \in {"_resample_daily", "datas._resample_daily"}

\* C3: the resampled series has exactly the calendar days from the first to
\* the last source date, holds the source value at every source point, and
\* between two neighbouring source points the linear interpolation of the
\* two; two days apart, the midpoint is (v1 + v2) / 2.
C3_ResampleInterpolates ==
    Resampling =>
        /\ DOMAIN df = SetMin(DOMAIN args) .. SetMax(DOMAIN args)
        /\ \A d \in Known(args) : df[d] = args[d]
        /\ \A d1 \in Known(args), d2 \in Known(args) :
              (d1 < d2 /\ \A k \in d1 + 1 .. d2 - 1 : k \notin Known(args)) =>
                  /\ \A d \in d1 + 1 .. d2 - 1 :
                        IsLinear(df[d], d, d1, args[d1][1], d2, args[d2][1])
                  /\ d2 = d1 + 2 =>
                        /\ df[d1 + 1][2] > 0
                        /\ 2 * df[d1 + 1][1] = df[d1 + 1][2] * (args[d1][1] + args[d2][1])

\* Source points 1 and 2 two days apart: the midpoint is 3/2.
C3_Witness ==
    /\ call = "_resample_daily"
    /\ DOMAIN args = {0, 2}
    /\ args[0] = Num(1) /\ args[2] = Num(2)
    /\ df[1] = <<3, 2>>

\* One defined value per calendar day over the span.
IsDaily(s) ==
    /\ DOMAIN s # {}
    /\ DOMAIN s = SetMin(DOMAIN s) .. SetMax(DOMAIN s)
    /\ \A d \in DOMAIN s : ~IsNaN(s[d])

\* C4: resampling an already-daily series returns the identical series, and
\* resampling the result of a resampling returns it unchanged.
C4_ResampleIdempotent ==
    Resampling =>
        /\ IsDaily(args) => df = args
        /\ (IF call = "_resample_daily" THEN _resample_daily(df)
            ELSE datas_resample_daily(df)) = df

\* A daily series over every day, with different values, comes back as it is.
C4_Witness ==
    /\ Resampling
    /\ IsDaily(args)
    /\ DOMAIN args = Days
    /\ args[0] # args[MaxDay]
    /\ df = args

\* The tables of the list all have rows.
AllHaveRows(dfs) == \A i \in 1 .. Len(dfs) : DOMAIN dfs[i] # {}

FirstDates(dfs) == {SetMin(DOMAIN dfs[i]) : i \in 1 .. Len(dfs)}
LastDates(dfs) == {SetMax(DOMAIN dfs[i]) : i \in 1 .. Len(dfs)}

IsLatestFirstEarliestLast(ret, dfs) ==
    /\ ret[1] \in FirstDates(dfs) /\ \A f \in FirstDates(dfs) : f <= ret[1]
    /\ ret[2] \in LastDates(dfs) /\ \A l \in LastDates(dfs) : ret[2] <= l

\* C5 as stated: common_period returns (latest first date, earliest last
\* date), modifies no table, and the pair has its start not after its end.
C5_AsStated ==
    (call = "common_period" /\ Len(args) >= 1 /\ AllHaveRows(args)) =>
        /\ err = "None"
        /\ IsLatestFirstEarliestLast(df.ret, args)
        /\ df.dfs = args
        /\ df.ret[1] <= df.ret[2]

\* C5 amended: common_period returns (latest first date, earliest last
\* date) and modifies no table; the start is not after the end exactly when
\* no table starts after another one ends.
C5_CommonPeriod ==
    (call = "common_period" /\ Len(args) >= 1 /\ AllHaveRows(args)) =>
        /\ err = "None"
        /\ IsLatestFirstEarliestLast(df.ret, args)
        /\ df.dfs = args
        /\ df.ret[1] <= df.ret[2] <=>
              \A f \in FirstDates(args), l \in LastDates(args) : f <= l

\* Spans [0, 2] and [1, 3] give (1, 2).
C5_Witness ==
    /\ call = "common_period"
    /\ Len(args) = 2
    /\ DOMAIN args[1] = 0 .. 2 /\ DOMAIN args[2] = 1 .. 3
    /\ df.ret = <<1, 2>>

\* C8: the bond loader removes the rows with a missing value, divides the
\* remaining values by 100 and then resamples: the result spans the days
\* from the first to the last remaining row, has no missing value, and
\* holds raw/100 at every remaining source date (3.5 becomes 0.035).
C8_BondYieldScaled ==
    (call = "load_usa_gov_bond_1year" /\ pc = "returned") =>
        LET raw == fs[BondFileName].data
        IN  /\ DOMAIN df = (IF Known(raw) = {} THEN {}
                            ELSE SetMin(Known(raw)) .. SetMax(Known(raw)))
            /\ \A d \in DOMAIN df : ~IsNaN(df[d])
            /\ \A d \in Known(raw) :
                  /\ df[d][2] > 0
                  /\ 100 * df[d][1] = df[d][2] * raw[d][1]
            /\ ScalePercent(0 :> Rat(35, 10))[0] = Rat(35, 1000)

\* A file whose first row is missing and dropped: the result starts later.
C8_Witness ==
    /\ call = "load_usa_gov_bond_1year"
    /\ pc = "returned"
    /\ DOMAIN fs[BondFileName].data = {0, 1, 3}
    /\ IsNaN(fs[BondFileName].data[0])
    /\ fs[BondFileName].data[1] = Num(2)
    /\ DOMAIN df = 1 .. 3
    /\ df[1] = <<1, 50>>

Last(q) == q[Len(q)]

Assembling == call \in {"load_stock_data", "load_index_data"}

\* The enrichers among the helpers a call has invoked, in order.
EnrichersRun == SelectSeq(trace, LAMBDA h : h \in {"_load_sales_per_share",
    "_load_earnings_per_share", "_load_book_value_per_share", "_load_dividend_TTM"})

\* The enrichers of load_stock_data whose flag is set, in the stated order.
EnabledInOrder(flags) ==
    SelectSeq(Enrichers("load_stock_data"), LAMBDA h : flags[Flag(h)])

IsPrefix(p, q) == Len(p) <= Len(q) /\ \A i \in 1 .. Len(p) : p[i] = q[i]

\* The earnings enricher has just evaluated its profit-margin statement.
ComputedProfitMargin ==
    /\ Last(trace) = "_load_earnings_per_share"
    /\ err \in {"None", "KeyError"}

\* C1: for every combination of the flags of load_stock_data the enabled
\* enrichers run in the order sales, earnings, book-value, dividend-TTM,
\* and whenever the earnings enricher computes the profit margin the
\* SALES_PER_SHARE column is already in the table.
C1_AsStated ==
    (call = "load_stock_data" /\ trace # <<>>) =>
        /\ IsPrefix(EnrichersRun, EnabledInOrder(args))
        /\ pc = "returned" => EnrichersRun = EnabledInOrder(args)
        /\ ComputedProfitMargin =>
              /\ err = "None"
              /\ "SALES_PER_SHARE" \in Columns(df)

\* q is the float quotient a / b of two finite values.
IsQuotient(q, a, b) ==
    IF b[1] = 0 THEN q = (IF a[1] = 0 THEN NaN ELSE <<Sgn(a[1]), 0>>)
    ELSE q[2] > 0 /\ q[1] * a[2] * b[1] = q[2] * a[1] * b[2]

JumpsByDividendOnce(d) ==
    \A r \in d.index :
        (r - 1 \in d.index) =>
            LET tr == d.cols["TOTAL_RETURN"]
                dividend == d.cols["Dividend Per Share"][r]
            IN  IF IsNaN(dividend) THEN tr[r] = tr[r - 1]
                ELSE tr[r] = Mul(tr[r - 1],
                                 Add(Num(1), Div(dividend, d.cols["SHARE_PRICE"][r])))

\* C6: load_index_data, given its price and dividend files, goes on with a
\* table whose TOTAL_RETURN compounds the price change and the reinvested
\* dividends.
C6_AsStated ==
    (/\ call = "load_index_data"
     /\ DividendFileName \in DOMAIN fs
     /\ fs[DividendFileName].exists
     /\ \A r \in DOMAIN fs[PriceFileName].data["Close"] :
           fs[PriceFileName].data["Close"][r] = Num(1)) =>
        /\ err = "None"
        /\ JumpsByDividendOnce(df)

PriceLoaded == Assembling /\ trace # <<>> /\ fs[PriceFileName].exists

\* C7: _load_price_yahoo returns a table with exactly the columns
\* TOTAL_RETURN and SHARE_PRICE, and fails with a column-selection error
\* (KeyError) when the file has no 'Close' column.
C7_AsStated ==
    (PriceLoaded /\ Last(trace) = "_load_price_yahoo") =>
        /\ {"Close", "Adj Close"} \subseteq DOMAIN fs[PriceFileName].data =>
              /\ err = "None"
              /\ Columns(df) = {"TOTAL_RETURN", "SHARE_PRICE"}
        /\ "Close" \notin DOMAIN fs[PriceFileName].data =>
              /\ err = "KeyError"
              /\ pc = "raised"

\* The file each helper of an assembler opens.
FileOf(helper) ==
    CASE helper = "_load_price_yahoo" -> PriceFileName
      [] helper = "_load_data" -> DividendFileName
      [] helper = "_load_sales_per_share" -> SalesFileName
      [] helper = "_load_earnings_per_share" -> EarningsFileName
      [] helper = "_load_book_value_per_share" -> BookValueFileName
      [] helper = "_load_dividend_TTM" -> DividendTTMFileName

RECURSIVE Remaining(_, _, _)
Remaining(disk, list, acc) ==
    IF list = <<>> THEN acc
    ELSE Remaining(disk, Tail(list),
            IF disk[Head(list)] = "ok" /\ \A i \in 1 .. Len(acc) : acc[i] # Head(list)
            THEN Append(acc, Head(list)) ELSE acc)

\* C10: load_shareprices_intraday skips the tickers whose file is missing
\* or malformed without raising, and returns a table with the rows of
\* exactly the remaining tickers, in list order.
C10_AsStated ==
    call = "load_shareprices_intraday" =>
        /\ err = "None"
        /\ pc = "returned"
        /\ df = Remaining(fs, IF args.is_list THEN args.value ELSE <<args.value>>, <<>>)


\* A download of intraday share-prices is under way or over.
Downloading ==
    /\ call = "download_shareprices_intraday"
    /\ pc \in {"download", "returned", "raised"}

\* The positions of the requests issued that were answered with status 200.
Answered200 == {k \in 1 .. Len(trace) : trace[k].status = 200}

\* C11: download_shareprices_intraday issues its requests one per ticker in
\* the order of the list, whatever the earlier responses were: a response
\* other than 200 is printed as an error, raises nothing and writes no file,
\* and the loop goes on to the next ticker; the files written are those of
\* the tickers answered with status 200; a call that returns has issued
\* exactly one request for every ticker of the list.  An exception arises
\* only from a missing API key (before any request) or from a request that
\* got no response at all.
C11_OneRequestPerTicker ==
    Downloading =>
        LET list == TickerList(args.tickers)
        IN  /\ Len(trace) <= Len(list)
            /\ \A k \in 1 .. Len(trace) :
                /\ trace[k].ticker = list[k]
                /\ k < Len(trace) => trace[k].status \in StatusCodes
                /\ trace[k].status \in StatusCodes \ {200} =>
                        trace[k].printed = "Error"
                /\ trace[k].status = 200 => trace[k].printed = "Done!"
            /\ fs = {trace[k].ticker : k \in Answered200}
            /\ pc = "returned" =>
                    /\ Len(trace) = Len(list)
                    /\ \A k \in 1 .. Len(trace) : trace[k].status \in StatusCodes
            /\ pc = "download" =>
                    /\ df.i = Len(trace)
                    /\ df.i < Len(list)
                    /\ err = "None"
                    /\ ENABLED download_shareprices_intraday_step
            /\ pc = "raised" =>
                    \/ err = "AssertionError" /\ _api_key_av = "None" /\ trace = <<>>
                    \/ /\ err = "RequestException"
                       /\ trace # <<>>
                       /\ trace[Len(trace)].status = NoResponse

\* A call has returned after a response other than 200 for its first ticker
\* and a response 200 for a later one, whose file alone was written.
C11_Witness ==
    /\ Downloading
    /\ pc = "returned"
    /\ Len(trace) = 3
    /\ trace[1].status = 404
    /\ trace[2].status = 200
    /\ trace[3].status = 404
    /\ fs = {"BBB"}


\* The rate Alpha Vantage allows a free account (comment at lines 558-560):
\* RateLimit calls in any RateWindow seconds.
RateLimit == 5
RateWindow == 60

\* A download with sleep=True is under way or over.
DownloadingWithSleep == Downloading /\ args.sleep

\* C12: with sleep=True a delay of 13 seconds is taken after every request
\* but the last of the list: the delays taken are as many as the requests
\* answered so far, less one once the call has returned (len(tickers) - 1 in
\* all, for a list that is not empty), two consecutive requests start at
\* least 13 seconds apart, no window of 60 seconds holds the start of more
\* than 5 requests, and the call returns without a delay after its last
\* request.
C12_DelayBetweenRequests ==
    DownloadingWithSleep =>
        LET list == TickerList(args.tickers)
            n == Len(trace)
        IN  /\ \A k \in 1 .. n - 1 :
                trace[k + 1].at - trace[k].at >= SleepSeconds
            /\ \A j, k \in 1 .. n :
                (j <= k /\ trace[k].at - trace[j].at <= RateWindow) =>
                    k - j + 1 <= RateLimit
            /\ pc = "download" =>
                    /\ df.sleeps = n
                    /\ n > 0 => df.clock >= trace[n].at + SleepSeconds
            /\ (pc = "returned" /\ list # <<>>) =>
                    /\ df.sleeps = Len(list) - 1
                    /\ df.clock <= trace[n].at + MaxLatency
            /\ (pc = "returned" /\ list = <<>>) => df.sleeps = 0

\* A call with sleep=True has returned after six requests that were all
\* answered at once: five delays, the sixth request 65 seconds after the
\* first, and no time passed since.
C12_Witness ==
    /\ DownloadingWithSleep
    /\ pc = "returned"
    /\ Len(trace) = 6
    /\ df.sleeps = 5
    /\ trace[1].at = 0
    /\ trace[5].at = 4 * SleepSeconds
    /\ trace[6].at = 5 * SleepSeconds
    /\ df.clock = trace[6].at


\* The statements of the assemblers that invoke an enricher.
EnricherNames ==
    {"_load_sales_per_share", "_load_earnings_per_share",
     "_load_book_value_per_share", "_load_dividend_TTM"}

\* The columns each enricher assigns.
OwnColumns(step) ==
    CASE step = "_load_sales_per_share" ->
            {"SALES_PER_SHARE", "PSALES", "SALES_GROWTH"}
      [] step = "_load_earnings_per_share" ->
            {"EARNINGS_PER_SHARE", "PE", "PROFIT_MARGIN"}
      [] step = "_load_book_value_per_share" ->
            {"BOOK_VALUE_PER_SHARE", "PBOOK"}
      [] step = "_load_dividend_TTM" ->
            {"DIVIDEND_TTM", "PDIVIDEND", "DIVIDEND_YIELD"}

RepositoryRegistry == globals = Imports \cup data_keys

\* C14: data_keys defines a name for every column key data.py refers to, so
\* that, with the repository's data_keys imported, every key referred to is
\* bound and the price loader of an assembler does not end in a reference
\* to an undefined name.
C14_AsStated ==
    (RepositoryRegistry /\ PriceLoaded /\ Last(trace) = "_load_price_yahoo") =>
        /\ ReferencedKeys \subseteq globals
        /\ err # "NameError"


\* calculate_storage has returned its result for a file size.
StorageComputed == call = "calculate_storage" /\ pc = "returned"

\* C15: for every file size from 0 on, calculate_storage returns the
\* smallest multiple of the block size 4096 that is not below the file
\* size: the result is a multiple of 4096, exceeds the file size by 0 to
\* 4095, no smaller multiple reaches the file size, a file size that is a
\* multiple of 4096 (0 included) is returned as it is, and the result for
\* file size 1 is 4096.
C15_SmallestMultiple ==
    StorageComputed =>
        /\ df % block_size = 0
        /\ df - args \in 0 .. block_size - 1
        /\ \A m \in 0 .. MaxFilesize \div block_size + 1 :
                m * block_size >= args => df <= m * block_size
        /\ args % block_size = 0 => df = args
        /\ args = 1 => df = 4096

\* calculate_storage has returned two blocks for a file one byte larger
\* than a block.
C15_Witness ==
    /\ StorageComputed
    /\ args = block_size + 1
    /\ df = 2 * block_size

=============================================================================
